---- MODULE Spec2Model ----
(***************************************************************************)
(* Composition root of go-evepraisal (evepraisal/app.go): appMain, the     *)
(* type-DB install callback handed to the static fetcher, the deferred     *)
(* close chain, the listeners started by mustStartServers and their        *)
(* shutdown, and the recognizer chain given to NewContextMultiParser.      *)
(*                                                                         *)
(* Time is counted in seconds.  Computation takes no time: the clock only  *)
(* advances while the main goroutine is blocked (time.Sleep, <-stop, or    *)
(* inside http.Server.Shutdown).                                           *)
(***************************************************************************)
EXTENDS Integers, Sequences, FiniteSets, TLC

\* ------------------------------------------------------------------ bounds
MaxTime == 10      \* the clock stops advancing here
MaxReq  == 1       \* request slots that can be in flight at once
MaxGen  == 2       \* type DB generations the static fetcher can build
MaxChain == 2      \* specific recognizers registered ahead of the fallback

\* ------------------------------------------------------- program constants
ShutdownTimeout == 5     \* context.WithTimeout(..., 5*time.Second)
CancelDelay     == 10    \* time.Sleep(10 * time.Second) before cancel()
StartSleep      == 1     \* time.Sleep(1 * time.Second) after the HTTPS start

NoTime == 0 - 1            \* a time that is not set
Nil    == 0              \* a nil typedb.TypeDB / nil Parser

Listeners == {"https", "http", "mgmt"}
Gens      == 1..MaxGen

VARIABLES
    \* --- appMain
    cfg,        \* configured addresses: subset of {"https","http"} (viper)
    pc,         \* position of the main goroutine
    now,        \* clock, seconds since appMain began
    wakeAt,     \* end of the time.Sleep in mustStartServers
    stop,       \* number of signals buffered in the stop channel (cap 1)
    sigAt,      \* time the interrupt fired, NoTime before
    stopAt,     \* time appMain received from stop, NoTime before
    acquired,   \* resources acquired so far, in order
    defers,     \* the deferred calls of appMain, in registration order
    released,   \* Close/Shutdown calls made so far, in order
    \* --- http servers
    srvSt,      \* per listener: "off", "serving", "draining", "stopped"
    deadline,   \* per listener: deadline of its stopCtx, NoTime if none
    cancelAt,   \* per listener: when the cancel() goroutine wakes
    cancelled,  \* per listener: cancel() has run
    forced,     \* per listener: Shutdown gave up with requests still active
    \* --- app and the static fetcher
    TypeDB,     \* app.TypeDB: generation, Nil before the first install
    Parser,     \* app.Parser: generation the chain is bound to, Nil before
    dbSt,       \* per generation: "unbuilt", "open", "closedByInstall", "closedByShutdown", "closedTwice"
    fetch,      \* static fetcher: "off", "idle", "building", "failed", "cb104", "cb106", "cb126", "closed"
    typeDB,     \* callback parameter: the generation being installed
    oldTypeDB,  \* callback local
    built,      \* generations built so far
    \* --- requests
    reqs,       \* the requests accepted and not completed: [st, srv, tdb, parser, pre]
    \* --- classification
    cReg,       \* registered specific recognizers (names, in order)
    cBeh,       \* what each registered specific recognizer (by name) does on the input
    cIdx,       \* next position of the dispatch loop in the chain
    cInvoked,   \* recognizers invoked so far, in order
    cResult     \* DispatchResult, or "pending"

mainVars == <<cfg, pc, now, wakeAt, stop, sigAt, stopAt, acquired, defers, released>>
srvVars  == <<srvSt, deadline, cancelAt, cancelled, forced>>
appVars  == <<TypeDB, Parser, dbSt, fetch, typeDB, oldTypeDB, built>>
clsVars  == <<cReg, cBeh, cIdx, cInvoked, cResult>>
vars     == <<mainVars, srvVars, appVars, reqs, clsVars>>

\* ----------------------------------------------------------------- helpers
alive == pc \notin {"exited", "returned"}

InFlight(s) == {r \in reqs : r.st = "inflight" /\ r.srv = s}

\* servers, as returned by mustStartServers: HTTPS first, then HTTP
servers ==
    (IF "https" \in cfg THEN <<"https">> ELSE <<>>) \o
    (IF "http" \in cfg THEN <<"http">> ELSE <<>>)

\* stopCtx.Done() is closed: the timeout passed or cancel() ran
ctxDone(s) == (deadline[s] # NoTime /\ now >= deadline[s]) \/ cancelled[s]

\* log.Fatalf: os.Exit(1): no deferred call runs, and every connection of the
\* process is gone with it
Fatal == pc' = "exited" /\ reqs' = {}

\* =================================================================== appMain
\* Every step of appMain leaves the servers, the app, the requests and the
\* classification state alone unless it says otherwise.
Acquire(name, next) ==
    /\ acquired' = Append(acquired, name)
    /\ pc' = next

\* lines 35-44: bolt.NewPriceDB, defer priceDB.Close()
StartPriceDB ==
    /\ pc = "priceDB"
    /\ \E ok \in BOOLEAN :
         IF ok
         THEN /\ Acquire("priceDB", "httpCache")
              /\ UNCHANGED reqs
              /\ defers' = Append(defers, "priceDB")
         ELSE /\ Fatal
              /\ UNCHANGED <<acquired, defers>>
    /\ UNCHANGED <<cfg, now, wakeAt, stop, sigAt, stopAt, released>>
    /\ UNCHANGED <<srvVars, appVars, clsVars>>

\* lines 46-62: bolt.NewHTTPCache, defer httpCache.Close(), and a second
\* defer priceDB.Close()
StartHTTPCache ==
    /\ pc = "httpCache"
    /\ \E ok \in BOOLEAN :
         IF ok
         THEN /\ Acquire("httpCache", "priceFetcher")
              /\ UNCHANGED reqs
              /\ defers' = defers \o <<"httpCache", "priceDB">>
         ELSE /\ Fatal
              /\ UNCHANGED <<acquired, defers>>
    /\ UNCHANGED <<cfg, now, wakeAt, stop, sigAt, stopAt, released>>
    /\ UNCHANGED <<srvVars, appVars, clsVars>>

\* lines 64-73: esi.NewPriceFetcher, defer priceFetcher.Close()
StartPriceFetcher ==
    /\ pc = "priceFetcher"
    /\ \E ok \in BOOLEAN :
         IF ok
         THEN /\ Acquire("priceFetcher", "appraisalDB")
              /\ UNCHANGED reqs
              /\ defers' = Append(defers, "priceFetcher")
         ELSE /\ Fatal
              /\ UNCHANGED <<acquired, defers>>
    /\ UNCHANGED <<cfg, now, wakeAt, stop, sigAt, stopAt, released>>
    /\ UNCHANGED <<srvVars, appVars, clsVars>>

\* lines 75-100: bolt.NewAppraisalDB, defer appraisalDB.Close(), app := &App{}
\* (app.TypeDB and app.Parser are left nil)
StartAppraisalDB ==
    /\ pc = "appraisalDB"
    /\ \E ok \in BOOLEAN :
         IF ok
         THEN /\ Acquire("appraisalDB", "staticFetcher")
              /\ UNCHANGED reqs
              /\ defers' = Append(defers, "appraisalDB")
         ELSE /\ Fatal
              /\ UNCHANGED <<acquired, defers>>
    /\ UNCHANGED <<cfg, now, wakeAt, stop, sigAt, stopAt, released>>
    /\ UNCHANGED <<srvVars, appVars, clsVars>>

\* lines 102-147: staticdump.NewStaticFetcher(path, callback), defer of the
\* closure that closes the fetcher and then app.TypeDB.  From here on the
\* fetcher runs on its own and calls the callback with each type DB it builds.
StartStaticFetcher ==
    /\ pc = "staticFetcher"
    /\ \E ok \in BOOLEAN :
         IF ok
         THEN /\ Acquire("staticFetcher", "startServers")
              /\ UNCHANGED reqs
              /\ defers' = Append(defers, "staticFetcher")
              /\ fetch' = "idle"
         ELSE /\ Fatal
              /\ UNCHANGED <<acquired, defers, fetch>>
    /\ UNCHANGED <<cfg, now, wakeAt, stop, sigAt, stopAt, released>>
    /\ UNCHANGED <<TypeDB, Parser, dbSt, typeDB, oldTypeDB, built>>
    /\ UNCHANGED <<srvVars, clsVars>>

\* lines 149-176 and 211-239: web.NewContext, then mustStartServers up to the
\* end of the HTTPS branch: the server is appended, its serve goroutine is
\* started and the main goroutine sleeps for StartSleep seconds.
StartHTTPS ==
    /\ pc = "startServers"
    /\ IF "https" \in cfg
       THEN /\ srvSt' = [srvSt EXCEPT !["https"] = "serving"]
            /\ acquired' = Append(acquired, "https")
            /\ wakeAt' = now + StartSleep
            /\ pc' = "httpsSleep"
       ELSE /\ pc' = "startHTTP"
            /\ UNCHANGED <<srvSt, acquired, wakeAt>>
    /\ UNCHANGED <<cfg, now, stop, sigAt, stopAt, defers, released>>
    /\ UNCHANGED <<deadline, cancelAt, cancelled, forced>>
    /\ UNCHANGED <<appVars, reqs, clsVars>>

\* line 238: time.Sleep(1 * time.Second) returns
WakeHTTPS ==
    /\ pc = "httpsSleep"
    /\ now >= wakeAt
    /\ pc' = "startHTTP"
    /\ UNCHANGED <<cfg, now, wakeAt, stop, sigAt, stopAt, acquired, defers, released>>
    /\ UNCHANGED <<srvVars, appVars, reqs, clsVars>>

\* lines 241-260: the HTTP branch of mustStartServers, return servers
StartHTTP ==
    /\ pc = "startHTTP"
    /\ IF "http" \in cfg
       THEN /\ srvSt' = [srvSt EXCEPT !["http"] = "serving"]
            /\ acquired' = Append(acquired, "http")
       ELSE UNCHANGED <<srvSt, acquired>>
    /\ pc' = "shutdownLoop"
    /\ UNCHANGED <<cfg, now, wakeAt, stop, sigAt, stopAt, defers, released>>
    /\ UNCHANGED <<deadline, cancelAt, cancelled, forced>>
    /\ UNCHANGED <<appVars, reqs, clsVars>>

\* lines 181-190: for each server, stopCtx := WithTimeout(Background, 5s) is
\* created NOW, server.Shutdown(stopCtx) is deferred with that context, and a
\* goroutine is started that calls cancel() after 10 seconds.
DeferShutdowns ==
    /\ pc = "shutdownLoop"
    /\ deadline' = [s \in Listeners |->
                      IF s \in cfg THEN now + ShutdownTimeout ELSE deadline[s]]
    /\ cancelAt' = [s \in Listeners |->
                      IF s \in cfg THEN now + CancelDelay ELSE cancelAt[s]]
    /\ defers' = defers \o servers
    /\ pc' = "mgmt"
    /\ UNCHANGED <<cfg, now, wakeAt, stop, sigAt, stopAt, acquired, released>>
    /\ UNCHANGED <<srvSt, cancelled, forced>>
    /\ UNCHANGED <<appVars, reqs, clsVars>>

\* lines 192-205: the management server, defer mgmtServer.Close(), and its
\* serve goroutine
StartMgmt ==
    /\ pc = "mgmt"
    /\ srvSt' = [srvSt EXCEPT !["mgmt"] = "serving"]
    /\ Acquire("mgmt", "waitStop")
    /\ defers' = Append(defers, "mgmt")
    /\ UNCHANGED <<cfg, now, wakeAt, stop, sigAt, stopAt, released>>
    /\ UNCHANGED <<deadline, cancelAt, cancelled, forced>>
    /\ UNCHANGED <<appVars, reqs, clsVars>>

\* lines 207-208: <-stop
WaitStop ==
    /\ pc = "waitStop"
    /\ stop > 0
    /\ stop' = stop - 1
    /\ stopAt' = now
    /\ pc' = "defers"
    /\ UNCHANGED <<cfg, now, wakeAt, sigAt, acquired, defers, released>>
    /\ UNCHANGED <<srvVars, appVars, reqs, clsVars>>

\* typeDB.Close() on generation g: dbSt afterwards (a second Close is recorded)
CloseDB(g, by) ==
    [dbSt EXCEPT ![g] = IF dbSt[g] = "open" THEN by ELSE "closedTwice"]

\* ====================================================== the deferred calls
Top == defers[Len(defers)]
Pop == SubSeq(defers, 1, Len(defers) - 1)

Stores == {"priceDB", "httpCache", "priceFetcher", "appraisalDB"}

\* line 197 (deferred): mgmtServer.Close() closes the listener and every
\* connection at once; its result is dropped.
CloseMgmt ==
    /\ pc = "defers"
    /\ defers # <<>>
    /\ Top = "mgmt"
    /\ srvSt' = [srvSt EXCEPT !["mgmt"] = "stopped"]
    /\ reqs' = {IF r \in InFlight("mgmt") THEN [r EXCEPT !.st = "killed"] ELSE r :
                  r \in reqs}
    /\ released' = Append(released, "mgmt")
    /\ defers' = Pop
    /\ UNCHANGED <<cfg, pc, now, wakeAt, stop, sigAt, stopAt, acquired>>
    /\ UNCHANGED <<deadline, cancelAt, cancelled, forced>>
    /\ UNCHANGED <<appVars, clsVars>>

\* line 183 (deferred): server.Shutdown(stopCtx) is entered: the listener is
\* closed, then Shutdown waits for the active connections.
ShutdownCall ==
    /\ pc = "defers"
    /\ defers # <<>>
    /\ Top \in {"https", "http"}
    /\ srvSt' = [srvSt EXCEPT ![Top] = "draining"]
    /\ released' = Append(released, Top)
    /\ pc' = "inShutdown"
    /\ UNCHANGED <<cfg, now, wakeAt, stop, sigAt, stopAt, acquired, defers>>
    /\ UNCHANGED <<deadline, cancelAt, cancelled, forced>>
    /\ UNCHANGED <<appVars, reqs, clsVars>>

\* (mutant) Shutdown is given a context that is never done
ShutdownReturnsWhenIdle(s) == InFlight(s) = {}

\* http.Server.Shutdown returns nil once no connection is active, and
\* ctx.Err() as soon as the context is done while one still is.  It closes
\* no active connection; its result is dropped by the defer.
ShutdownReturns(s) == InFlight(s) = {} \/ ctxDone(s)

ShutdownReturn ==
    /\ pc = "inShutdown"
    /\ ShutdownReturns(Top)
    /\ forced' = [forced EXCEPT ![Top] = (InFlight(Top) # {})]
    /\ srvSt' = [srvSt EXCEPT ![Top] = "stopped"]
    /\ defers' = Pop
    /\ pc' = "defers"
    /\ UNCHANGED <<cfg, now, wakeAt, stop, sigAt, stopAt, acquired, released>>
    /\ UNCHANGED <<deadline, cancelAt, cancelled>>
    /\ UNCHANGED <<appVars, reqs, clsVars>>

\* lines 135-147 (deferred): staticFetcher.Close(), then app.TypeDB.Close()
\* when app.TypeDB is not nil.  Close of the fetcher abandons a build in
\* progress and waits for a running callback to return.
CloseStaticFetcher ==
    /\ pc = "defers"
    /\ defers # <<>>
    /\ Top = "staticFetcher"
    /\ fetch \in {"idle", "building", "failed"}
    /\ fetch' = "closed"
    /\ \E err1 \in BOOLEAN, err2 \in BOOLEAN :
         IF err1
         THEN /\ released' = Append(released, "staticFetcher")
              /\ Fatal
              /\ UNCHANGED <<dbSt, defers>>
         ELSE IF TypeDB # Nil
         THEN /\ released' = released \o <<"staticFetcher", "typeDB">>
              /\ dbSt' = CloseDB(TypeDB, "closedByShutdown")
              /\ IF err2
                 THEN Fatal /\ UNCHANGED defers
                 ELSE defers' = Pop /\ UNCHANGED <<pc, reqs>>
         ELSE /\ released' = Append(released, "staticFetcher")
              /\ defers' = Pop
              /\ UNCHANGED <<dbSt, pc, reqs>>
    /\ UNCHANGED <<cfg, now, wakeAt, stop, sigAt, stopAt, acquired>>
    /\ UNCHANGED <<TypeDB, Parser, typeDB, oldTypeDB, built>>
    /\ UNCHANGED <<srvVars, clsVars>>

\* lines 39-44, 50-55, 57-62, 68-73, 80-85 (deferred): x.Close(), log.Fatalf
\* when it returns an error
CloseStore ==
    /\ pc = "defers"
    /\ defers # <<>>
    /\ Top \in Stores
    /\ released' = Append(released, Top)
    /\ \E err \in BOOLEAN :
         IF err
         THEN Fatal /\ UNCHANGED defers
         ELSE defers' = Pop /\ UNCHANGED <<pc, reqs>>
    /\ UNCHANGED <<cfg, now, wakeAt, stop, sigAt, stopAt, acquired>>
    /\ UNCHANGED <<srvVars, appVars, clsVars>>

\* line 209: every deferred call has run, appMain returns
Return ==
    /\ pc = "defers"
    /\ defers = <<>>
    /\ pc' = "returned"
    /\ UNCHANGED <<cfg, now, wakeAt, stop, sigAt, stopAt, acquired, defers, released>>
    /\ UNCHANGED <<srvVars, appVars, reqs, clsVars>>

\* ================================================= goroutines and the world
\* lines 31-32: the interrupt is delivered to the buffered stop channel
Signal ==
    /\ alive
    /\ sigAt = NoTime
    /\ stop' = 1
    /\ sigAt' = now
    /\ reqs' = {IF r.st = "inflight" THEN [r EXCEPT !.pre = TRUE] ELSE r : r \in reqs}
    /\ UNCHANGED <<cfg, pc, now, wakeAt, stopAt, acquired, defers, released>>
    /\ UNCHANGED <<srvVars, appVars, clsVars>>

\* lines 184-187: the goroutine wakes after 10 seconds and calls cancel()
Cancel(s) ==
    /\ alive
    /\ cancelAt[s] # NoTime
    /\ now >= cancelAt[s]
    /\ ~cancelled[s]
    /\ cancelled' = [cancelled EXCEPT ![s] = TRUE]
    /\ UNCHANGED <<mainVars, appVars, reqs, clsVars>>
    /\ UNCHANGED <<srvSt, deadline, cancelAt, forced>>

CancelTimer == \E s \in Listeners : Cancel(s)

\* lines 198-205, 230-237, 250-257: ListenAndServe returns an error other
\* than ErrServerClosed: log.Fatalf
ServeFailure ==
    /\ alive
    /\ \E s \in Listeners : srvSt[s] = "serving"
    /\ Fatal
    /\ UNCHANGED <<cfg, now, wakeAt, stop, sigAt, stopAt, acquired, defers, released>>
    /\ UNCHANGED <<srvVars, appVars, clsVars>>

\* The main goroutine is blocked: in time.Sleep, in <-stop with nothing
\* buffered, or inside Shutdown with a connection active and the context live.
Blocked ==
    \/ pc = "httpsSleep" /\ now < wakeAt
    \/ pc = "waitStop" /\ stop = 0
    \/ pc = "inShutdown" /\ ~ShutdownReturns(Top)

\* a cancel() goroutine whose sleep is over runs before the clock moves on
CancelDue == \E s \in Listeners : cancelAt[s] # NoTime /\ now >= cancelAt[s] /\ ~cancelled[s]

Tick ==
    /\ Blocked
    /\ ~CancelDue
    /\ now < MaxTime
    /\ now' = now + 1
    /\ UNCHANGED <<cfg, pc, wakeAt, stop, sigAt, stopAt, acquired, defers, released>>
    /\ UNCHANGED <<srvVars, appVars, reqs, clsVars>>

\* ================================================== the recognizer chain
\* lines 108-122: the recognizers registered ahead of the heuristic parser
SpecificParsers ==
    <<"ParseKillmail", "ParseEFT", "ParseFitting", "ParseLootHistory",
      "ParsePI", "ParseViewContents", "ParseWallet", "ParseSurveyScan",
      "ParseContract", "ParseAssets", "ParseIndustry", "ParseCargoScan",
      "ParseDScan", "NewContextListingParser">>

\* line 123: the heuristic parser, the fallback of the chain
HeuristicParser == "NewHeuristicParser"

\* (mutant) the heuristic parser is written first in the list
RegisteredParsersHeuristicFirst(specific) == <<HeuristicParser>> \o specific

\* (mutant) the heuristic parser is written ahead of the last specific one
RegisteredParsersHeuristicEarly(specific) ==
    IF specific = <<>> THEN <<HeuristicParser>>
    ELSE SubSeq(specific, 1, Len(specific) - 1) \o
         <<HeuristicParser, specific[Len(specific)]>>

\* (mutant) the heuristic parser is left out of the list
RegisteredParsersNoHeuristic(specific) == specific

\* lines 108-124: the list literal puts the heuristic parser after every
\* specific recognizer, in the order written
RegisteredParsers(specific) == Append(specific, HeuristicParser)

ParserList == RegisteredParsers(SpecificParsers)

\* evepraisal.NewContextMultiParser(typeDB, parsers): a chain bound to typeDB
NewContextMultiParser(db, parsers) == [db |-> db, parsers |-> parsers]

NilParser == [db |-> Nil, parsers |-> <<>>]

\* ====================================================== the static fetcher
\* A refresh cycle of the static fetcher starts building a type DB.
BeginBuild ==
    /\ alive
    /\ fetch = "idle"
    /\ fetch' = "building"
    /\ UNCHANGED <<TypeDB, Parser, dbSt, typeDB, oldTypeDB, built>>
    /\ UNCHANGED <<mainVars, srvVars, reqs, clsVars>>

\* (mutant) a failed build is handed to the callback all the same
BuildFailInstalls ==
    /\ alive
    /\ fetch = "building"
    /\ fetch' = "failed"
    /\ TypeDB' = Nil
    /\ Parser' = NilParser
    /\ UNCHANGED <<dbSt, typeDB, oldTypeDB, built>>
    /\ UNCHANGED <<mainVars, srvVars, reqs, clsVars>>

\* The build fails: the callback is not called, the failure is to be reported.
BuildFail ==
    /\ alive
    /\ fetch = "building"
    /\ fetch' = "failed"
    /\ UNCHANGED <<TypeDB, Parser, dbSt, typeDB, oldTypeDB, built>>
    /\ UNCHANGED <<mainVars, srvVars, reqs, clsVars>>

\* The failure is reported and the fetcher waits for its next cycle.
ReportFailure ==
    /\ alive
    /\ fetch = "failed"
    /\ fetch' = "idle"
    /\ UNCHANGED <<TypeDB, Parser, dbSt, typeDB, oldTypeDB, built>>
    /\ UNCHANGED <<mainVars, srvVars, reqs, clsVars>>

\* The build succeeds: the fetcher calls the callback with the new type DB,
\* whose generation is one more than that of the last one built.
BuildDone ==
    /\ alive
    /\ fetch = "building"
    /\ built < MaxGen
    /\ built' = built + 1
    /\ typeDB' = built + 1
    /\ dbSt' = [dbSt EXCEPT ![built + 1] = "open"]
    /\ fetch' = "cb104"
    /\ UNCHANGED <<TypeDB, Parser, oldTypeDB>>
    /\ UNCHANGED <<mainVars, srvVars, reqs, clsVars>>

\* lines 104-105: oldTypeDB := app.TypeDB; app.TypeDB = typeDB
CallbackSetTypeDB ==
    /\ alive
    /\ fetch = "cb104"
    /\ oldTypeDB' = TypeDB
    /\ TypeDB' = typeDB
    /\ fetch' = "cb106"
    /\ UNCHANGED <<Parser, dbSt, typeDB, built>>
    /\ UNCHANGED <<mainVars, srvVars, reqs, clsVars>>

\* (mutant) the chain is built on the old type DB
CallbackSetParserOnOld ==
    /\ alive
    /\ fetch = "cb106"
    /\ Parser' = NewContextMultiParser(oldTypeDB, ParserList)
    /\ fetch' = "cb126"
    /\ UNCHANGED <<TypeDB, dbSt, typeDB, oldTypeDB, built>>
    /\ UNCHANGED <<mainVars, srvVars, reqs, clsVars>>

\* lines 106-124: app.Parser = NewContextMultiParser(typeDB, [...])
CallbackSetParser ==
    /\ alive
    /\ fetch = "cb106"
    /\ Parser' = NewContextMultiParser(typeDB, ParserList)
    /\ fetch' = "cb126"
    /\ UNCHANGED <<TypeDB, dbSt, typeDB, oldTypeDB, built>>
    /\ UNCHANGED <<mainVars, srvVars, reqs, clsVars>>

\* (mutant) the callback returns without closing the old type DB
CallbackKeepOld ==
    /\ alive
    /\ fetch = "cb126"
    /\ fetch' = "idle"
    /\ typeDB' = Nil
    /\ oldTypeDB' = Nil
    /\ UNCHANGED <<TypeDB, Parser, dbSt, built>>
    /\ UNCHANGED <<mainVars, srvVars, reqs, clsVars>>

\* lines 126-131: if oldTypeDB != nil { oldTypeDB.Close() }; return
CallbackCloseOld ==
    /\ alive
    /\ fetch = "cb126"
    /\ dbSt' = IF oldTypeDB # Nil
               THEN CloseDB(oldTypeDB, "closedByInstall")
               ELSE dbSt
    /\ fetch' = "idle"
    /\ typeDB' = Nil
    /\ oldTypeDB' = Nil
    /\ UNCHANGED <<TypeDB, Parser, built>>
    /\ UNCHANGED <<mainVars, srvVars, reqs, clsVars>>

\* ================================================================ requests
\* A request is accepted by a serving listener; its handler reads app.TypeDB
\* and app.Parser and works with what it read until it completes.
RequestStart ==
    /\ alive
    /\ Cardinality(reqs) < MaxReq
    /\ \E s \in Listeners :
         /\ srvSt[s] = "serving"
         /\ reqs' = reqs \cup {[st |-> "inflight", srv |-> s, tdb |-> TypeDB,
                                parser |-> Parser.db, pre |-> FALSE]}
    /\ UNCHANGED <<mainVars, srvVars, appVars, clsVars>>

RequestDone ==
    /\ alive
    /\ \E r \in reqs :
         /\ r.st = "inflight"
         /\ reqs' = reqs \ {r}
    /\ UNCHANGED <<mainVars, srvVars, appVars, clsVars>>

\* ========================================================== classification
\* What a recognizer does with the input: it recognizes it, declines it, or
\* raises an internal error.
Outcomes == {"match", "decline", "error"}

Pending      == [kind |-> "Pending", identity |-> "", items |-> <<>>]
Unrecognized == [kind |-> "Unrecognized", identity |-> "", items |-> <<>>]
Failed       == [kind |-> "Failed", identity |-> "", items |-> <<>>]
\* each recognizer returns its own items
Recognized(name) == [kind |-> "Recognized", identity |-> name, items |-> <<name>>]

\* attempt(rawText, snapshot) of the i-th recognizer of the chain; the
\* heuristic parser always returns some interpretation
Attempt(chain, beh, i) ==
    IF chain[i] = HeuristicParser THEN "match" ELSE beh[chain[i]]

\* (mutant) an internal error of a recognizer is not contained
DeclinedOnlyWhenDeclining(outcome) == outcome = "decline"

\* a recognizer that raises an internal error is treated as having declined
Declined(outcome) == outcome \in {"decline", "error"}

\* one iteration of the dispatch loop of classify
ClassifyStep ==
    /\ cResult = Pending
    /\ LET chain == RegisteredParsers(cReg) IN
       IF cIdx > Len(chain)
       THEN /\ cResult' = Unrecognized
            /\ UNCHANGED <<cIdx, cInvoked>>
       ELSE LET o == Attempt(chain, cBeh, cIdx) IN
            /\ cInvoked' = Append(cInvoked, chain[cIdx])
            /\ IF o = "match"
               THEN cResult' = Recognized(chain[cIdx]) /\ UNCHANGED cIdx
               ELSE IF Declined(o)
               THEN cIdx' = cIdx + 1 /\ UNCHANGED cResult
               ELSE cResult' = Failed /\ UNCHANGED cIdx
    /\ UNCHANGED <<cReg, cBeh>>
    /\ UNCHANGED <<mainVars, srvVars, appVars, reqs>>

\* classify as a function of the chain and of what each recognizer does
RECURSIVE Dispatch(_, _, _)
Dispatch(chain, beh, i) ==
    IF i > Len(chain) THEN Unrecognized
    ELSE IF Attempt(chain, beh, i) = "match" THEN Recognized(chain[i])
    ELSE IF Declined(Attempt(chain, beh, i))
         THEN Dispatch(chain, beh, i + 1)
    ELSE Failed

classify(chain, beh) == Dispatch(chain, beh, 1)

\* ===================================================== the specifications
InitApp ==
    /\ pc = "priceDB"
    /\ now = 0
    /\ wakeAt = NoTime
    /\ stop = 0
    /\ sigAt = NoTime
    /\ stopAt = NoTime
    /\ acquired = <<>>
    /\ defers = <<>>
    /\ released = <<>>
    /\ srvSt = [s \in Listeners |-> "off"]
    /\ deadline = [s \in Listeners |-> NoTime]
    /\ cancelAt = [s \in Listeners |-> NoTime]
    /\ cancelled = [s \in Listeners |-> FALSE]
    /\ forced = [s \in Listeners |-> FALSE]
    /\ TypeDB = Nil
    /\ Parser = NilParser
    /\ dbSt = [g \in Gens |-> "unbuilt"]
    /\ fetch = "off"
    /\ typeDB = Nil
    /\ oldTypeDB = Nil
    /\ built = 0
    /\ reqs = {}

Init ==
    /\ cfg \in SUBSET {"https", "http"}
    /\ InitApp
    /\ cReg = <<>>
    /\ cBeh = <<>>
    /\ cIdx = 1
    /\ cInvoked = <<>>
    /\ cResult = Pending

Next ==
    \/ StartPriceDB
    \/ StartHTTPCache
    \/ StartPriceFetcher
    \/ StartAppraisalDB
    \/ StartStaticFetcher
    \/ StartHTTPS
    \/ WakeHTTPS
    \/ StartHTTP
    \/ DeferShutdowns
    \/ StartMgmt
    \/ WaitStop
    \/ CloseMgmt
    \/ ShutdownCall
    \/ ShutdownReturn
    \/ CloseStaticFetcher
    \/ CloseStore
    \/ Return
    \/ Signal
    \/ CancelTimer
    \/ ServeFailure
    \/ Tick
    \/ BeginBuild
    \/ BuildFail
    \/ ReportFailure
    \/ BuildDone
    \/ CallbackSetTypeDB
    \/ CallbackSetParser
    \/ CallbackCloseOld
    \/ RequestStart
    \/ RequestDone

Spec == Init /\ [][Next]_vars

\* the steps of the main goroutine, and those of the install callback
appMain ==
    \/ StartPriceDB \/ StartHTTPCache \/ StartPriceFetcher \/ StartAppraisalDB
    \/ StartStaticFetcher \/ StartHTTPS \/ WakeHTTPS \/ StartHTTP
    \/ DeferShutdowns \/ StartMgmt \/ WaitStop \/ CloseMgmt \/ ShutdownCall
    \/ ShutdownReturn \/ CloseStaticFetcher \/ CloseStore \/ Return

Callback == CallbackSetTypeDB \/ CallbackSetParser \/ CallbackCloseOld

\* The scheduler keeps running every goroutine that can run and the clock
\* keeps advancing; nothing is assumed of requests, of the signal or of the
\* static fetcher's refresh cycles.
FairSpec ==
    /\ Spec
    /\ WF_vars(appMain)
    /\ WF_vars(Callback)
    /\ WF_vars(CancelTimer)
    /\ WF_vars(Tick)

\* classify on every registered sequence of at most MaxChain specific
\* recognizers and every combination of what they do on the input
ParserNames == {SpecificParsers[i] : i \in 1..Len(SpecificParsers)}

RegisteredSeqs ==
    UNION {{f \in [1..n -> ParserNames] :
              \A i, j \in 1..n : i # j => f[i] # f[j]} : n \in 0..MaxChain}

InitClassify ==
    /\ cfg = {"https", "http"}
    /\ InitApp
    /\ cReg \in RegisteredSeqs
    /\ cBeh \in [{cReg[i] : i \in 1..Len(cReg)} -> Outcomes]
    /\ cIdx = 1
    /\ cInvoked = <<>>
    /\ cResult = Pending

NextClassify == ClassifyStep

SpecClassify == InitClassify /\ [][NextClassify]_vars

\* ================================================================== claims
Min(S) == CHOOSE x \in S : \A y \in S : x <= y

\* C1 -- Swap safety: the type DB (and the type DB of the parser chain) that an
\* in-flight request captured is never closed by an install before the
\* request completes.
C1_SwapSafety ==
    \A r \in reqs :
        r.st = "inflight" =>
            /\ r.tdb # Nil => dbSt[r.tdb] # "closedByInstall"
            /\ r.parser # Nil => dbSt[r.parser] # "closedByInstall"

\* C2 -- Swap atomicity: a request observes exactly one generation: the
\* app.TypeDB it read and the type DB its app.Parser is bound to are the same.
C2_SwapAtomicity ==
    \A r \in reqs : r.st = "inflight" => r.tdb = r.parser

\* C3 -- Grace window: when Shutdown gives up on a listener that still has a
\* request that was in flight when the signal fired, at least the grace
\* duration has elapsed since the signal.
C3_GraceWindow ==
    \A s \in Listeners :
        (forced[s] /\ \E r \in InFlight(s) : r.pre) =>
            now >= sigAt + ShutdownTimeout

\* C4 -- Concurrent shutdown: the shutdown of a listener does not wait for the
\* shutdown of another to return: once appMain has begun to shut down, no
\* listener is still accepting at a later time.
C4_ConcurrentShutdown ==
    \A s \in Listeners :
        (stopAt # NoTime /\ srvSt[s] = "serving") => now = stopAt

\* C5 -- Reverse release: after a normal shutdown, for any two acquired
\* resources A acquired before B, every release of B precedes every release
\* of A.
C5_ReverseRelease ==
    pc = "returned" =>
        \A i, j \in 1..Len(acquired) :
            i < j =>
                \A a, b \in 1..Len(released) :
                    (released[a] = acquired[i] /\ released[b] = acquired[j]) => b < a

\* C6 -- Order sensitivity: when a registered specific recognizer would
\* recognize the input (the fallback then being a second one that would),
\* classify returns the items and identity of the earliest such recognizer in
\* registration order, and invoked no recognizer registered after it.
C6_OrderSensitivity ==
    LET M == {i \in 1..Len(cReg) : cBeh[cReg[i]] = "match"} IN
    (cResult # Pending /\ M # {}) =>
        /\ cResult = Recognized(cReg[Min(M)])
        /\ cInvoked = SubSeq(cReg, 1, Min(M))

C6_Witness ==
    /\ Len(cReg) >= 2
    /\ cBeh[cReg[1]] = "match"
    /\ cBeh[cReg[2]] = "match"
    /\ cResult = Recognized(cReg[1])

\* C7 -- Fallback always matches: classify returns Recognized for every input
\* and every registered sequence, the empty one included, attributed to the
\* heuristic parser when no specific recognizer recognizes the input; it
\* never returns Unrecognized.
C7_FallbackAlwaysMatches ==
    cResult # Pending =>
        /\ cResult.kind = "Recognized"
        /\ (\A i \in 1..Len(cReg) : cBeh[cReg[i]] # "match") =>
               cResult = Recognized(HeuristicParser)

C7_Witness ==
    /\ cReg = <<>>
    /\ cResult = Recognized(HeuristicParser)

\* C8 -- Failure containment: when a recognizer raises an internal error,
\* classify still returns a DispatchResult, equal to the one obtained had that
\* recognizer declined.
C8_FailureContainment ==
    cResult # Pending =>
        /\ cResult.kind \in {"Recognized", "Unrecognized"}
        /\ \A n \in DOMAIN cBeh :
               cBeh[n] = "error" =>
                   cResult = classify(RegisteredParsers(cReg),
                                      [cBeh EXCEPT ![n] = "decline"])

C8_Witness ==
    /\ cResult # Pending
    /\ Len(cInvoked) >= 2
    /\ cBeh[cInvoked[1]] = "error"

\* C9 -- Build-failure resilience: the step in which a build fails installs
\* nothing: app.TypeDB, app.Parser and the generation count are unchanged, no
\* type DB is closed, and appMain and the listeners carry on.
C9_BuildFailureResilience ==
    [][(fetch = "building" /\ fetch' = "failed") =>
          /\ TypeDB' = TypeDB
          /\ Parser' = Parser
          /\ built' = built
          /\ dbSt' = dbSt
          /\ srvSt' = srvSt
          /\ pc' = pc]_vars

C9_Witness ==
    /\ fetch = "failed"
    /\ TypeDB # Nil
    /\ Parser.db = TypeDB
    /\ dbSt[TypeDB] = "open"
    /\ \E s \in Listeners : srvSt[s] = "serving"

\* C10 -- One current snapshot: whenever a listener is accepting requests
\* app.TypeDB is set and open, and an install replaces the current generation
\* by a strictly greater one.
C10_OneCurrentSnapshot ==
    /\ \A s \in Listeners :
           srvSt[s] = "serving" => (TypeDB # Nil /\ dbSt[TypeDB] = "open")
    /\ fetch \in {"cb106", "cb126"} => TypeDB > oldTypeDB

\* C11 -- Management drain: a request in flight on the management listener
\* when the signal fired is not forcibly closed before the grace duration has
\* elapsed since the signal.
C11_ManagementDrain ==
    \A r \in reqs :
        (r.srv = "mgmt" /\ r.st = "killed" /\ r.pre) =>
            now >= sigAt + ShutdownTimeout

Count(seq, x) == Cardinality({i \in 1..Len(seq) : seq[i] = x})

\* C13 -- Teardown after drain: once the type DB or a store has been closed
\* during shutdown, no request is in flight on any listener.
C13_TeardownAfterDrain ==
    (\E i \in 1..Len(released) : released[i] \in Stores \cup {"typeDB"}) =>
        \A r \in reqs : r.st # "inflight"

\* C14 -- Release on every exit path: when the process ends, by returning
\* from appMain or by log.Fatalf, every resource acquired has been released,
\* and for A acquired before B every release of B precedes every release of A.
C14_ReleaseOnEveryExit ==
    pc \in {"returned", "exited"} =>
        /\ \A i \in 1..Len(acquired) : Count(released, acquired[i]) >= 1
        /\ \A i, j \in 1..Len(acquired) :
               i < j =>
                   \A a, b \in 1..Len(released) :
                       (released[a] = acquired[i] /\ released[b] = acquired[j]) => b < a

\* C17 -- Single close: after a normal shutdown Close has been called exactly
\* once on each store, on the static fetcher and on the type DB in app.TypeDB.
C17_SingleClose ==
    pc = "returned" =>
        /\ \A x \in Stores \cup {"staticFetcher"} : Count(released, x) = 1
        /\ Count(released, "typeDB") = (IF TypeDB # Nil THEN 1 ELSE 0)

\* a generation has been installed: the callback has put it in app.TypeDB
Installed(g) == g <= built /\ ~(fetch = "cb104" /\ typeDB = g)

\* C15 -- Generations are released exactly once: after a normal shutdown every
\* installed generation has been closed exactly once; an install retires the
\* generation just before the new one (none at the first install), every
\* earlier generation is closed once the callback has returned, and a retired
\* generation is never current again.
C15_GenerationsClosedOnce ==
    /\ \A g \in Gens : dbSt[g] # "closedTwice"
    /\ pc = "returned" =>
           \A g \in Gens :
               Installed(g) => dbSt[g] \in {"closedByInstall", "closedByShutdown"}
    /\ fetch \in {"cb106", "cb126"} =>
           /\ oldTypeDB = typeDB - 1
           /\ TypeDB = typeDB
    /\ fetch \notin {"cb106", "cb126"} =>
           \A g \in Gens : g < TypeDB => dbSt[g] = "closedByInstall"
    /\ \A g \in Gens : dbSt[g] = "closedByInstall" => g < TypeDB

C15_Witness ==
    /\ pc = "returned"
    /\ built >= 2
    /\ dbSt[1] = "closedByInstall"
    /\ dbSt[built] = "closedByShutdown"

CallbackRunning == fetch \in {"cb104", "cb106", "cb126"}

\* C18 (as stated) -- whenever no install callback is in progress and an
\* install has completed, app.Parser is bound to the type DB in app.TypeDB
\* and that type DB is open.
C18_ParserOnOpenCurrent ==
    (~CallbackRunning /\ TypeDB # Nil) =>
        /\ Parser.db = TypeDB
        /\ dbSt[TypeDB] = "open"

\* C18 (amended) -- whenever no install callback is in progress and an install
\* has completed, app.Parser is bound to the type DB in app.TypeDB, and that
\* type DB is open until the deferred close of appMain's shutdown closes it;
\* it is never one that an install retired.
C18_ParserOnCurrent ==
    (~CallbackRunning /\ TypeDB # Nil) =>
        /\ Parser.db = TypeDB
        /\ \/ dbSt[TypeDB] = "open"
           \/ /\ dbSt[TypeDB] = "closedByShutdown"
              /\ Count(released, "typeDB") = 1
              /\ pc \in {"defers", "returned", "exited"}

C18_Witness ==
    /\ fetch = "idle"
    /\ TypeDB = 2
    /\ Parser.db = 2
    /\ dbSt[1] = "closedByInstall"
    /\ dbSt[2] = "open"

ListenersStopped == \A s \in Listeners : srvSt[s] \in {"off", "stopped"}

StoresReleased ==
    \A x \in Stores \cup {"staticFetcher"} : Count(released, x) >= 1

====
